---- MODULE Spec2Model ----
(***************************************************************************)
(* Model of src/src/app.js: an express application over a Postgres pool    *)
(* and the Stripe gateway, with three handlers: GET /availability,         *)
(* POST /quote and POST /checkout.                                         *)
(*                                                                         *)
(* The database is modelled as the committed reservations table (what      *)
(* every read-committed statement sees) plus, per open transaction, the    *)
(* rows it inserted and has not committed.  Each await of the checkout     *)
(* handler is one step; the code between two awaits runs without           *)
(* interleaving (one JavaScript thread) and belongs to the step that ends  *)
(* the earlier await.                                                      *)
(***************************************************************************)
EXTENDS Integers, Sequences, FiniteSets

(***************************************************************************)
(* Bounds of the model.                                                    *)
(***************************************************************************)
NAttempts == 2          \* concurrent POST /checkout requests
NDates == 3             \* how many of the calendar dates below requests use

(***************************************************************************)
(* Calendar dates.  A date string 'YYYY-MM-DD' is the tuple <<y, m, d>>.   *)
(***************************************************************************)
AllDates == << <<2024, 6, 1>>, <<2024, 6, 4>>, <<2024, 2, 28>>, <<2023, 12, 31>>,
               <<2024, 3, 1>>, <<2025, 1, 1>> >>

Min(a, b) == IF a <= b THEN a ELSE b

Dates == { AllDates[i] : i \in 1..Min(NDates, Len(AllDates)) }

MsPerDay == 86400000

\* Floor of x / n for n > 0 and any integer x.
FloorDiv(x, n) == IF x >= 0 THEN x \div n ELSE -((-x + n - 1) \div n)

\* Days from 1970-01-01 to the date (ECMAScript MakeDay for a UTC date).
DaysFromCivil(s) ==
    LET y   == IF s[2] <= 2 THEN s[1] - 1 ELSE s[1]
        era == FloorDiv(y, 400)
        yoe == y - era * 400
        mp  == IF s[2] > 2 THEN s[2] - 3 ELSE s[2] + 9
        doy == (153 * mp + 2) \div 5 + s[3] - 1
        doe == yoe * 365 + yoe \div 4 - yoe \div 100 + doy
    IN  era * 146097 + doe - 719468

\* A string that is no date at all (such as 'soon'), and the test that a
\* string is a date 'YYYY-MM-DD'.
NotADate == <<-1, -1, -1>>

IsDate(s) == s[1] \in 0..9999 /\ s[2] \in 1..12 /\ s[3] \in 1..31

\* A JavaScript time value t (ms since the epoch) is kept as the pair
\* [days, ms] with t = days * 86400000 + ms and 0 <= ms < 86400000, so that
\* the arithmetic stays exact within TLC's integers.  NaN, the time value
\* of an Invalid Date, is the pair with ms = -1.
Time(days, ms) ==
    [days |-> days + FloorDiv(ms, MsPerDay), ms |-> ms - FloorDiv(ms, MsPerDay) * MsPerDay]

NaNTime == [days |-> 0, ms |-> -1]

\* The number NaN, kept as an integer that no count of days and no amount
\* of the model takes.
NaN == -(2 ^ 30)

\* toDate(s) = new Date(`${s}T00:00:00.000Z`): midnight UTC of the date, or
\* an Invalid Date when the string does not parse.
toDate(s) == IF IsDate(s) THEN Time(DaysFromCivil(s), 0) ELSE NaNTime

\* x - y, x <= y and Math.ceil(t / 86400000) on time values; a difference
\* with NaN is NaN and a comparison with NaN is false.
TimeMinus(x, y) ==
    IF x = NaNTime \/ y = NaNTime THEN NaNTime
    ELSE Time(x.days - y.days, x.ms - y.ms)

TimeLE(x, y) ==
    /\ x # NaNTime /\ y # NaNTime
    /\ x.days < y.days \/ (x.days = y.days /\ x.ms <= y.ms)

CeilDays(t) == IF t = NaNTime THEN NaN ELSE IF t.ms > 0 THEN t.days + 1 ELSE t.days

\* n * p on numbers (exact while the product stays below 2^31, which holds
\* for every stay of the model: its dates span less than 600 years).
Times(n, p) == IF n = NaN \/ p = NaN THEN NaN ELSE n * p

\* An off-by-one variant: counting both end days.
nightsBetweenInclusive(a, b) ==
    IF CeilDays(TimeMinus(toDate(b), toDate(a))) = NaN THEN NaN
    ELSE CeilDays(TimeMinus(toDate(b), toDate(a))) + 1

\* nightsBetween(a, b) = Math.ceil((toDate(b) - toDate(a)) / 86400000)
nightsBetween(a, b) == CeilDays(TimeMinus(toDate(b), toDate(a)))

\* Comparison of two values of a Postgres date column (or of a parameter
\* cast to date): by year, then month, then day.
DateLess(a, b) ==
    \/ a[1] < b[1]
    \/ a[1] = b[1] /\ a[2] < b[2]
    \/ a[1] = b[1] /\ a[2] = b[2] /\ a[3] < b[3]

DateLE(a, b) == a = b \/ DateLess(a, b)

(***************************************************************************)
(* The properties table (read-only for this program).                      *)
(***************************************************************************)
Properties ==
    { [id |-> 1, slug |-> "villa-x", name |-> "Villa X", currency |-> "EUR",
       price_per_night_cents |-> 10000],
      [id |-> 2, slug |-> "casa-y", name |-> "Casa Y", currency |-> "",
       price_per_night_cents |-> 7550] }

NoProp == [id |-> 0, slug |-> "", name |-> "", currency |-> "",
           price_per_night_cents |-> 0]

\* A lookup that falls back to the slug when the identifier matches nothing.
getPropertySlugFallback(id, slug) ==
    IF id = 0 /\ slug = "" THEN NoProp
    ELSE LET byId   == { p \in Properties : p.id = id }
             bySlug == { p \in Properties : p.slug = slug }
         IN  IF id # 0 /\ byId # {} THEN CHOOSE p \in byId : TRUE
             ELSE IF bySlug # {} THEN CHOOSE p \in bySlug : TRUE
             ELSE NoProp

\* getProperty({id, slug}); id = 0 and slug = "" stand for an absent field.
getProperty(id, slug) ==
    IF id = 0 /\ slug = "" THEN NoProp
    ELSE LET rows == IF id # 0 THEN { p \in Properties : p.id = id }
                     ELSE { p \in Properties : p.slug = slug }
         IN  IF rows # {} THEN CHOOSE p \in rows : TRUE ELSE NoProp

(***************************************************************************)
(* The reservations table.                                                 *)
(***************************************************************************)
Row(id, pid, ci, co, st) ==
    [id |-> id, property_id |-> pid, checkin |-> ci, checkout |-> co, status |-> st]

\* Rows the table can hold before the first request of a run.
SeedRows ==
    { Row(1, 1, <<2024, 2, 28>>, <<2024, 6, 1>>, "paid"),
      Row(2, 1, <<2024, 6, 1>>, <<2024, 6, 4>>, "cancelled"),
      Row(3, 2, <<2024, 6, 1>>, <<2024, 6, 4>>, "pending") }

\* The tables a run starts from: empty, or holding the rows above.
InitTables == { {}, SeedRows }

FirstId == Cardinality(SeedRows) + 1

\* A variant with closed ranges: back-to-back stays count as overlapping.
OverlapsClosed(r, from, to) == ~(DateLess(r.checkout, from) \/ DateLess(to, r.checkin))

\* not (checkout <= $2 or checkin >= $3)
Overlaps(r, from, to) == ~(DateLE(r.checkout, from) \/ DateLE(to, r.checkin))

\* A variant that forgets the status filter.
ActiveAnyStatus(r) == TRUE

\* A variant that forgets the paid stays.
ActivePendingOnly(r) == r.status = "pending"

\* status in ('pending','paid')
Active(r) == r.status \in {"pending", "paid"}

\* The reservations queries compare date columns with their text
\* parameters: Postgres casts each parameter to date and rejects the query
\* when one is no date.
QueryAccepts(from, to) == IsDate(from) /\ IsDate(to)

\* The where clause shared by the availability query and the conflict query.
Occupied(table, pid, from, to) ==
    { r \in table : r.property_id = pid /\ Active(r) /\ Overlaps(r, from, to) }

\* const amountCents = nights * Number(prop.price_per_night_cents || 0), in
\* POST /quote.
QuoteAmount(p, ci, co) == Times(nightsBetween(ci, co), p.price_per_night_cents)

\* The same line of POST /checkout.
CheckoutAmount(p, ci, co) == Times(nightsBetween(ci, co), p.price_per_night_cents)

\* The specification's overlap test for half-open ranges [a1, a2), [b1, b2),
\* and the rows it says block a stay: stated apart from the queries above.
RangesOverlap(a1, a2, b1, b2) == ~(DateLE(a2, b1) \/ DateLE(b2, a1))

Blocking(table, pid, from, to) ==
    { r \in table : /\ r.property_id = pid
                    /\ r.status \in {"pending", "paid"}
                    /\ RangesOverlap(r.checkin, r.checkout, from, to) }

(***************************************************************************)
(* Requests.  A request body carries property_id (0 = absent),             *)
(* property_slug ("" = absent), checkin, checkout and email (FALSE =       *)
(* absent).                                                                *)
(***************************************************************************)
Selectors ==
    { [id |-> 1, slug |-> ""], [id |-> 0, slug |-> "casa-y"],
      [id |-> 9, slug |-> "villa-x"], [id |-> 0, slug |-> ""] }

Body(s, ci, co, e) ==
    [property_id |-> s.id, property_slug |-> s.slug, checkin |-> ci, checkout |-> co,
     email |-> e]

\* The request bodies of the model: every pair of dates (valid range or not)
\* for the selectors that name a property, one valid range for those that
\* name none, one body without email and one whose checkin is no date.
Requests ==
    { Body(s, ci, co, TRUE) :
        s \in { t \in Selectors : getProperty(t.id, t.slug) # NoProp },
        ci \in Dates, co \in Dates }
    \cup { Body(s, AllDates[1], AllDates[2], TRUE) : s \in Selectors }
    \cup { Body([id |-> 1, slug |-> ""], AllDates[1], AllDates[2], FALSE) }
    \cup { Body([id |-> 1, slug |-> ""], NotADate, AllDates[2], TRUE) }

\* An absent date field.
NoDate == <<0, 0, 0>>

NoReq == [property_id |-> 0, property_slug |-> "", checkin |-> NoDate,
          checkout |-> NoDate, email |-> FALSE]

Attempts == 1..NAttempts

VARIABLES
    committed,   \* the committed rows of the reservations table
    nextId,      \* the sequence behind reservations.id
    pc,          \* where each checkout handler stands
    req,         \* its request body
    prop,        \* the property row it resolved
    conn,        \* its pooled client: "none", "held", "released"
    txOpen,      \* whether a transaction is open on the client it holds, or
                 \* was the last to hold
    txRows,      \* the rows inserted and not committed in that transaction
    resId,       \* reservationId (0 before the insert returned)
    amount,      \* amountCents (0 before it is computed)
    resp,        \* the status of the response it sent (0 = none yet)
    gw,          \* its gateway call: "none", "called", "ok", "fail", "hung"
    gwCalls,     \* how many times it invoked the gateway
    gwReq,       \* the metadata and unit_amount of its gateway call
    respBody,    \* reservation_id and amount_cents of its 201 response
    releases,    \* how many times it released its client
    sessions,    \* the sessions the gateway created
    busyAtStart, \* history: rows that occupied its range when it arrived
    txAtConnect, \* history: the transaction its client carried when the pool
                 \* handed it out
    availResp,   \* the response to the GET /availability request of the run
    quoteResp,   \* the response to the POST /quote request of the run
    readPc,      \* where that request's handler stands: "idle" (not arrived),
                 \* "availLookup", "availQuery", "quoteLookup" (the await it
                 \* is suspended at) or "done"
    readReq,     \* the query or body of the request while it is in flight
    readProp     \* prop of the availability handler

checkoutVars == << committed, nextId, pc, req, prop, conn, txOpen, txRows, resId,
                   amount, resp, gw, gwCalls, gwReq, respBody, releases, sessions,
                   busyAtStart, txAtConnect >>

NoCall == [reservation_id |-> 0, unit_amount |-> 0, property_id |-> 0,
           checkin |-> NoDate, checkout |-> NoDate]

NoBody == [reservation_id |-> 0, amount_cents |-> 0]

NoTx == [open |-> FALSE, rows |-> {}]

reads == << availResp, quoteResp, readPc, readReq, readProp >>

vars == << checkoutVars, reads >>

NoResp == [status |-> 0]

NoRead == [property_id |-> 0, property_slug |-> ""]

Init ==
    /\ committed \in InitTables
    /\ nextId = FirstId
    /\ pc = [a \in Attempts |-> "idle"]
    /\ req = [a \in Attempts |-> NoReq]
    /\ prop = [a \in Attempts |-> NoProp]
    /\ conn = [a \in Attempts |-> "none"]
    /\ txOpen = [a \in Attempts |-> FALSE]
    /\ txRows = [a \in Attempts |-> {}]
    /\ resId = [a \in Attempts |-> 0]
    /\ amount = [a \in Attempts |-> 0]
    /\ resp = [a \in Attempts |-> 0]
    /\ gw = [a \in Attempts |-> "none"]
    /\ gwCalls = [a \in Attempts |-> 0]
    /\ gwReq = [a \in Attempts |-> NoCall]
    /\ respBody = [a \in Attempts |-> NoBody]
    /\ releases = [a \in Attempts |-> 0]
    /\ sessions = {}
    /\ busyAtStart = [a \in Attempts |-> {}]
    /\ txAtConnect = [a \in Attempts |-> NoTx]
    /\ availResp = NoResp
    /\ quoteResp = NoResp
    /\ readPc = "idle"
    /\ readReq = NoRead
    /\ readProp = NoProp

\* The request validation of POST /checkout: the status it answers, 0 if
\* the request passes.
CheckoutInvalid(r) ==
    IF ~r.email THEN 400
    ELSE IF r.checkin = NoDate \/ r.checkout = NoDate THEN 400
    ELSE IF TimeLE(toDate(r.checkout), toDate(r.checkin)) THEN 400
    ELSE 0

\* return res.status(code).json(..) inside the try: the response, then the
\* finally block releases the client.
Respond(a, code) ==
    /\ resp' = [resp EXCEPT ![a] = code]
    /\ respBody' = [respBody EXCEPT ![a] =
          IF code = 201
             THEN [reservation_id |-> resId[a], amount_cents |-> amount[a]]
             ELSE NoBody]
    /\ conn' = [conn EXCEPT ![a] = "released"]
    /\ releases' = [releases EXCEPT ![a] = @ + 1]
    /\ pc' = [pc EXCEPT ![a] = "done"]

\* A rejected await inside the try: control moves to the catch block, which
\* awaits ROLLBACK.
Throw(a) ==
    /\ pc' = [pc EXCEPT ![a] = "catch"]
    /\ UNCHANGED << resp, respBody, conn, releases >>

\* The request arrives and the handler awaits pool.connect().  Attempts are
\* numbered in order of arrival.
Receive(a, r) ==
    /\ pc[a] = "idle"
    /\ UNCHANGED reads
    /\ IF a = 1 THEN TRUE ELSE pc[a - 1] # "idle"
    /\ pc' = [pc EXCEPT ![a] = "connect"]
    /\ req' = [req EXCEPT ![a] = r]
    /\ busyAtStart' = [busyAtStart EXCEPT ![a] =
          Blocking(committed, getProperty(r.property_id, r.property_slug).id,
                   r.checkin, r.checkout)]
    /\ UNCHANGED << committed, nextId, prop, conn, releases, txOpen, txRows, resId,
                    amount, resp, respBody, gw, gwCalls, gwReq, sessions,
                    txAtConnect >>

\* pool.connect() rejects: the await is outside the try, so the handler's
\* promise rejects.  What becomes of the request is the framework's doing:
\* express 4 ignores the promise of a handler and the request is never
\* answered (ConnectFail); express 5 passes the rejection to its default
\* error handler, which answers 500 (ConnectFailAnswered).  The source does
\* not fix the version.
ConnectFailAnswered(a) ==
    /\ pc[a] = "connect"
    /\ UNCHANGED reads
    /\ resp' = [resp EXCEPT ![a] = 500]
    /\ pc' = [pc EXCEPT ![a] = "done"]
    /\ UNCHANGED << committed, nextId, req, prop, conn, releases, txOpen, txRows,
                    resId, amount, respBody, gw, gwCalls, gwReq, sessions,
                    busyAtStart, txAtConnect >>

ConnectFail(a) ==
    /\ pc[a] = "connect"
    /\ UNCHANGED reads
    /\ pc' = [pc EXCEPT ![a] = "dead"]
    /\ UNCHANGED << committed, nextId, req, prop, conn, releases, txOpen, txRows, resId,
                    amount, resp, respBody, gw, gwCalls, gwReq, sessions, busyAtStart, txAtConnect >>

\* The idle clients of the pool that were released with a transaction open
\* (named by the attempt that held them last).
DirtyIdle == { c \in Attempts : conn[c] = "released" /\ txOpen[c] }

\* pool.connect() resolves; the body is validated and getProperty is awaited.
\* The pool hands out a client without a transaction (c = a: a new one or a
\* clean idle one) or an idle client released with its transaction open,
\* whose transaction the attempt then continues.
ConnectOk(a) ==
    /\ pc[a] = "connect"
    /\ UNCHANGED reads
    /\ \E c \in {a} \cup DirtyIdle :
          IF c = a
             THEN UNCHANGED << txOpen, txRows, txAtConnect >>
             ELSE /\ txOpen' = [txOpen EXCEPT ![a] = TRUE, ![c] = FALSE]
                  /\ txRows' = [txRows EXCEPT ![a] = txRows[c], ![c] = {}]
                  /\ txAtConnect' = [txAtConnect EXCEPT ![a] =
                        [open |-> TRUE, rows |-> txRows[c]]]
    /\ IF CheckoutInvalid(req[a]) # 0
          THEN Respond(a, CheckoutInvalid(req[a]))
          ELSE /\ conn' = [conn EXCEPT ![a] = "held"]
               /\ pc' = [pc EXCEPT ![a] = "lookup"]
               /\ UNCHANGED releases
               /\ UNCHANGED << resp, respBody >>
    /\ UNCHANGED << committed, nextId, req, prop, resId, amount,
                    gw, gwCalls, gwReq, sessions, busyAtStart >>

\* getProperty resolves; 404 without a property, else the conflict query is
\* awaited.
LookupOk(a) ==
    /\ pc[a] = "lookup"
    /\ UNCHANGED reads
    /\ LET p == getProperty(req[a].property_id, req[a].property_slug)
       IN  /\ prop' = [prop EXCEPT ![a] = p]
           /\ IF p = NoProp
                 THEN Respond(a, 404)
                 ELSE /\ pc' = [pc EXCEPT ![a] = "check"]
                      /\ UNCHANGED << resp, respBody, conn, releases >>
    /\ UNCHANGED << committed, nextId, req, txOpen, txRows, resId, amount, gw,
                    gwCalls, gwReq, sessions, busyAtStart, txAtConnect >>

\* The pool.query of getProperty rejects (it runs only with an id or a slug).
LookupFail(a) ==
    /\ pc[a] = "lookup"
    /\ UNCHANGED reads
    /\ req[a].property_id # 0 \/ req[a].property_slug # ""
    /\ Throw(a)
    /\ UNCHANGED << committed, nextId, req, prop, txOpen, txRows, resId, amount,
                    gw, gwCalls, gwReq, sessions, busyAtStart, txAtConnect >>

\* The conflict query resolves, on the committed rows: 409 on a conflict,
\* else the price is computed and BEGIN is awaited.
CheckOk(a) ==
    /\ pc[a] = "check"
    /\ UNCHANGED reads
    /\ QueryAccepts(req[a].checkin, req[a].checkout)
    /\ IF Occupied(committed \cup txRows[a], prop[a].id, req[a].checkin,
                   req[a].checkout) # {}
          THEN /\ Respond(a, 409)
               /\ UNCHANGED amount
          ELSE /\ amount' = [amount EXCEPT ![a] =
                     CheckoutAmount(prop[a], req[a].checkin, req[a].checkout)]
               /\ pc' = [pc EXCEPT ![a] = "begin"]
               /\ UNCHANGED << resp, respBody, conn, releases >>
    /\ UNCHANGED << committed, nextId, req, prop, txOpen, txRows, resId, gw,
                    gwCalls, gwReq, sessions, busyAtStart, txAtConnect >>

CheckFail(a) ==
    /\ pc[a] = "check"
    /\ UNCHANGED reads
    /\ Throw(a)
    /\ UNCHANGED << committed, nextId, req, prop, txOpen, txRows, resId, amount,
                    gw, gwCalls, gwReq, sessions, busyAtStart, txAtConnect >>

\* BEGIN resolves; the insert is awaited.
BeginOk(a) ==
    /\ pc[a] = "begin"
    /\ UNCHANGED reads
    /\ txOpen' = [txOpen EXCEPT ![a] = TRUE]
    /\ pc' = [pc EXCEPT ![a] = "insert"]
    /\ UNCHANGED << committed, nextId, req, prop, conn, releases, txRows, resId, amount,
                    resp, respBody, gw, gwCalls, gwReq, sessions, busyAtStart, txAtConnect >>

BeginFail(a) ==
    /\ pc[a] = "begin"
    /\ UNCHANGED reads
    /\ Throw(a)
    /\ UNCHANGED << committed, nextId, req, prop, txOpen, txRows, resId, amount,
                    gw, gwCalls, gwReq, sessions, busyAtStart, txAtConnect >>

\* A variant that hands the gateway the id of another row.
InsertOkWrongMeta(a) ==
    /\ pc[a] = "insert"
    /\ UNCHANGED reads
    /\ txRows' = [txRows EXCEPT ![a] = @ \cup
          { Row(nextId, prop[a].id, req[a].checkin, req[a].checkout, "pending") }]
    /\ nextId' = nextId + 1
    /\ resId' = [resId EXCEPT ![a] = nextId]
    /\ gw' = [gw EXCEPT ![a] = "called"]
    /\ gwCalls' = [gwCalls EXCEPT ![a] = @ + 1]
    /\ gwReq' = [gwReq EXCEPT ![a] =
          [reservation_id |-> nextId + 1, unit_amount |-> amount[a],
           property_id |-> prop[a].id, checkin |-> req[a].checkin,
           checkout |-> req[a].checkout]]
    /\ pc' = [pc EXCEPT ![a] = "stripe"]
    /\ UNCHANGED << committed, req, prop, conn, releases, txOpen, amount, resp, respBody,
                    sessions, busyAtStart, txAtConnect >>

\* The insert resolves with the new id; stripe.checkout.sessions.create is
\* called with it and awaited.
InsertOk(a) ==
    /\ pc[a] = "insert"
    /\ UNCHANGED reads
    /\ txRows' = [txRows EXCEPT ![a] = @ \cup
          { Row(nextId, prop[a].id, req[a].checkin, req[a].checkout, "pending") }]
    /\ nextId' = nextId + 1
    /\ resId' = [resId EXCEPT ![a] = nextId]
    /\ gw' = [gw EXCEPT ![a] = "called"]
    /\ gwCalls' = [gwCalls EXCEPT ![a] = @ + 1]
    /\ gwReq' = [gwReq EXCEPT ![a] =
          [reservation_id |-> nextId, unit_amount |-> amount[a],
           property_id |-> prop[a].id, checkin |-> req[a].checkin,
           checkout |-> req[a].checkout]]
    /\ pc' = [pc EXCEPT ![a] = "stripe"]
    /\ UNCHANGED << committed, req, prop, conn, releases, txOpen, amount, resp, respBody,
                    sessions, busyAtStart, txAtConnect >>

InsertFail(a) ==
    /\ pc[a] = "insert"
    /\ UNCHANGED reads
    /\ Throw(a)
    /\ UNCHANGED << committed, nextId, req, prop, txOpen, txRows, resId, amount,
                    gw, gwCalls, gwReq, sessions, busyAtStart, txAtConnect >>

\* The gateway creates the session and answers; COMMIT is awaited.
GatewayOk(a) ==
    /\ pc[a] = "stripe"
    /\ UNCHANGED reads
    /\ gw' = [gw EXCEPT ![a] = "ok"]
    /\ sessions' = sessions \cup
          { [reservation_id |-> gwReq[a].reservation_id,
             unit_amount |-> gwReq[a].unit_amount,
             property_id |-> gwReq[a].property_id] }
    /\ pc' = [pc EXCEPT ![a] = "commit"]
    /\ UNCHANGED << committed, nextId, req, prop, conn, releases, txOpen, txRows, resId,
                    amount, resp, respBody, gwCalls, gwReq, busyAtStart, txAtConnect >>

\* The gateway call rejects (validation or transient error).
GatewayFail(a) ==
    /\ pc[a] = "stripe"
    /\ UNCHANGED reads
    /\ gw' = [gw EXCEPT ![a] = "fail"]
    /\ Throw(a)
    /\ UNCHANGED << committed, nextId, req, prop, txOpen, txRows, resId, amount,
                    gwCalls, gwReq, sessions, busyAtStart, txAtConnect >>

\* The gateway call neither resolves nor rejects.  The handler sets no
\* timer, so nothing of this attempt runs again.
GatewayHang(a) ==
    /\ pc[a] = "stripe"
    /\ UNCHANGED reads
    /\ gw' = [gw EXCEPT ![a] = "hung"]
    /\ pc' = [pc EXCEPT ![a] = "hung"]
    /\ UNCHANGED << committed, nextId, req, prop, conn, releases, txOpen, txRows, resId,
                    amount, resp, respBody, gwCalls, gwReq, sessions, busyAtStart, txAtConnect >>

\* A variant that stores the reservation as paid.
CommitOkPaid(a) ==
    /\ pc[a] = "commit"
    /\ UNCHANGED reads
    /\ committed' = committed \cup { [r EXCEPT !.status = "paid"] : r \in txRows[a] }
    /\ txOpen' = [txOpen EXCEPT ![a] = FALSE]
    /\ txRows' = [txRows EXCEPT ![a] = {}]
    /\ Respond(a, 201)
    /\ UNCHANGED << nextId, req, prop, resId, amount, gw, gwCalls, gwReq, sessions,
                    busyAtStart, txAtConnect >>

\* COMMIT resolves: the rows of the transaction become visible, 201 is sent
\* and the finally block releases the client.
CommitOk(a) ==
    /\ pc[a] = "commit"
    /\ UNCHANGED reads
    /\ committed' = committed \cup txRows[a]
    /\ txOpen' = [txOpen EXCEPT ![a] = FALSE]
    /\ txRows' = [txRows EXCEPT ![a] = {}]
    /\ Respond(a, 201)
    /\ UNCHANGED << nextId, req, prop, resId, amount, gw, gwCalls, gwReq, sessions,
                    busyAtStart, txAtConnect >>

\* COMMIT rejects although the server has applied it (the connection broke
\* before the answer arrived): the rows are committed and the handler goes
\* to its catch block.
CommitFailApplied(a) ==
    /\ pc[a] = "commit"
    /\ UNCHANGED reads
    /\ committed' = committed \cup txRows[a]
    /\ txOpen' = [txOpen EXCEPT ![a] = FALSE]
    /\ txRows' = [txRows EXCEPT ![a] = {}]
    /\ Throw(a)
    /\ UNCHANGED << nextId, req, prop, resId, amount, gw, gwCalls, gwReq, sessions,
                    busyAtStart, txAtConnect >>

\* COMMIT rejects and nothing was committed.
CommitFail(a) ==
    /\ pc[a] = "commit"
    /\ UNCHANGED reads
    /\ Throw(a)
    /\ UNCHANGED << committed, nextId, req, prop, txOpen, txRows, resId, amount,
                    gw, gwCalls, gwReq, sessions, busyAtStart, txAtConnect >>

\* The catch block: ROLLBACK succeeds, 500 is sent and the finally block
\* releases the client.
Rollback(a) ==
    /\ pc[a] = "catch"
    /\ UNCHANGED reads
    /\ txOpen' = [txOpen EXCEPT ![a] = FALSE]
    /\ txRows' = [txRows EXCEPT ![a] = {}]
    /\ Respond(a, 500)
    /\ UNCHANGED << committed, nextId, req, prop, resId, amount, gw, gwCalls, gwReq,
                    sessions, busyAtStart, txAtConnect >>

\* The catch block when ROLLBACK rejects: .catch(() => {}) swallows the
\* rejection, 500 is sent and the finally block releases the client as it
\* is, with whatever the transaction held (nothing was rolled back, nothing
\* committed).
RollbackFail(a) ==
    /\ pc[a] = "catch"
    /\ UNCHANGED reads
    /\ Respond(a, 500)
    /\ UNCHANGED << committed, nextId, req, prop, txOpen, txRows, resId, amount, gw,
                    gwCalls, gwReq, sessions, busyAtStart, txAtConnect >>

(***************************************************************************)
(* The read-only handlers.                                                 *)
(***************************************************************************)
\* Rows of the tables the read handlers are run against: the rows above, a
\* second stay of property 1 starting the same day as row 2, and a stay that
\* overlaps row 1 (two attempts racing past the conflict query commit such
\* a pair).
ReadRows ==
    SeedRows \cup { Row(4, 1, <<2024, 6, 1>>, <<2024, 6, 4>>, "pending"),
                    Row(5, 1, <<2023, 12, 31>>, <<2024, 3, 1>>, "pending") }

AvailQueries ==
    { [property_id |-> s.id, property_slug |-> s.slug, from |-> f, to |-> t] :
        s \in Selectors, f \in Dates \cup {NoDate, NotADate},
        t \in Dates \cup {NoDate} }

QuoteBodies ==
    { [property_id |-> s.id, property_slug |-> s.slug, checkin |-> ci, checkout |-> co] :
        s \in Selectors, ci \in Dates \cup {NoDate, NotADate},
        co \in Dates \cup {NoDate, NotADate} }

\* r => ({ id, checkin, checkout, status })
Exposed(r) ==
    [id |-> r.id, checkin |-> r.checkin, checkout |-> r.checkout, status |-> r.status]

\* order by checkin asc: r1 may stand before r2.
OrderedBefore(r1, r2) == DateLE(r1.checkin, r2.checkin)

\* The orders in which the query may return the rows S: every arrangement
\* sorted by checkin (rows with equal checkin come in any order).
SortedSeqs(S) ==
    { f \in [1..Cardinality(S) -> S] :
        /\ \A i, j \in 1..Cardinality(S) : i # j => f[i] # f[j]
        /\ \A i, j \in 1..Cardinality(S) : i < j => OrderedBefore(f[i], f[j]) }

\* GET /availability, up to the reservations query: the status it answers
\* without running that query, 0 if it runs it.
AvailabilityEarly(q) ==
    IF q.from = NoDate \/ q.to = NoDate THEN 400
    ELSE IF getProperty(q.property_id, q.property_slug) = NoProp THEN 404
    ELSE 0

\* A run carries one request to a read handler (the read handlers share no
\* state, so their requests do not interact).  The handler runs up to its
\* next await in one step and returns to the event loop there.

\* GET /availability arrives: 400 without from or to, else getProperty is
\* awaited.
AvailabilityStart(q) ==
    /\ readPc = "idle"
    /\ IF q.from = NoDate \/ q.to = NoDate
          THEN /\ availResp' = [status |-> 400, query |-> q]
               /\ readPc' = "done"
               /\ UNCHANGED readReq
          ELSE /\ readReq' = q
               /\ readPc' = "availLookup"
               /\ UNCHANGED availResp
    /\ UNCHANGED << checkoutVars, quoteResp, readProp >>

\* getProperty resolves: 404 without a property, else the reservations
\* query is awaited.
AvailabilityLookupOk ==
    /\ readPc = "availLookup"
    /\ LET p == getProperty(readReq.property_id, readReq.property_slug)
       IN  IF p = NoProp
              THEN /\ availResp' = [status |-> 404, query |-> readReq]
                   /\ readPc' = "done"
                   /\ readReq' = NoRead
                   /\ UNCHANGED readProp
              ELSE /\ readProp' = p
                   /\ readPc' = "availQuery"
                   /\ UNCHANGED << availResp, readReq >>
    /\ UNCHANGED << checkoutVars, quoteResp >>

\* The query of getProperty rejects (it runs only with an id or a slug):
\* the catch block answers 500.
AvailabilityLookupFail ==
    /\ readPc = "availLookup"
    /\ readReq.property_id # 0 \/ readReq.property_slug # ""
    /\ availResp' = [status |-> 500, query |-> readReq]
    /\ readPc' = "done"
    /\ readReq' = NoRead
    /\ UNCHANGED << checkoutVars, quoteResp, readProp >>

\* What a pool.query can see of the reservations table at this moment: the
\* committed rows, and with them, when the pool runs it on an idle client
\* released with its transaction open, the rows of that transaction.
PoolViews == {committed} \cup { committed \cup txRows[c] : c \in DirtyIdle }

\* The reservations query resolves and the handler answers 200.
AvailabilityQueryOk ==
    /\ readPc = "availQuery"
    /\ QueryAccepts(readReq.from, readReq.to)
    /\ \E view \in PoolViews :
          \E rows \in SortedSeqs(Occupied(view, readProp.id, readReq.from,
                                           readReq.to)) :
             availResp' = [status |-> 200, query |-> readReq,
                           occupied |-> [i \in DOMAIN rows |-> Exposed(rows[i])]]
    /\ readPc' = "done"
    /\ readReq' = NoRead
    /\ readProp' = NoProp
    /\ UNCHANGED << checkoutVars, quoteResp >>

\* The reservations query rejects: the catch block answers 500.
AvailabilityQueryFail ==
    /\ readPc = "availQuery"
    /\ availResp' = [status |-> 500, query |-> readReq]
    /\ readPc' = "done"
    /\ readReq' = NoRead
    /\ readProp' = NoProp
    /\ UNCHANGED << checkoutVars, quoteResp >>

\* The validation of POST /quote: the status it answers, 0 if the body
\* passes.
QuoteInvalid(b) ==
    IF b.checkin = NoDate \/ b.checkout = NoDate THEN 400
    ELSE IF TimeLE(toDate(b.checkout), toDate(b.checkin)) THEN 400
    ELSE 0

\* The response of POST /quote when its query does not reject.
QuoteResponse(b) ==
    IF QuoteInvalid(b) # 0 THEN [status |-> QuoteInvalid(b)]
    ELSE LET p == getProperty(b.property_id, b.property_slug)
         IN  IF p = NoProp THEN [status |-> 404]
             ELSE [status |-> 200,
                   property_id |-> p.id,
                   checkin |-> b.checkin,
                   checkout |-> b.checkout,
                   nights |-> nightsBetween(b.checkin, b.checkout),
                   currency |-> IF p.currency = "" THEN "EUR" ELSE p.currency,
                   price_per_night_cents |-> p.price_per_night_cents,
                   total_cents |-> QuoteAmount(p, b.checkin, b.checkout)]

\* POST /quote arrives: 400 on a body that fails validation, else
\* getProperty is awaited.
QuoteStart(b) ==
    /\ readPc = "idle"
    /\ IF QuoteInvalid(b) # 0
          THEN /\ quoteResp' = [status |-> QuoteInvalid(b), body |-> b,
                                response |-> [status |-> QuoteInvalid(b)]]
               /\ readPc' = "done"
               /\ UNCHANGED readReq
          ELSE /\ readReq' = b
               /\ readPc' = "quoteLookup"
               /\ UNCHANGED quoteResp
    /\ UNCHANGED << checkoutVars, availResp, readProp >>

\* getProperty resolves and the handler answers 404 or 200; the body is
\* kept with the response.
QuoteLookupOk ==
    /\ readPc = "quoteLookup"
    /\ quoteResp' = [status |-> QuoteResponse(readReq).status, body |-> readReq,
                     response |-> QuoteResponse(readReq)]
    /\ readPc' = "done"
    /\ readReq' = NoRead
    /\ UNCHANGED << checkoutVars, availResp, readProp >>

\* The query of getProperty rejects (it runs only with an id or a slug):
\* the catch block answers 500.
QuoteLookupFail ==
    /\ readPc = "quoteLookup"
    /\ readReq.property_id # 0 \/ readReq.property_slug # ""
    /\ quoteResp' = [status |-> 500, body |-> readReq, response |-> [status |-> 500]]
    /\ readPc' = "done"
    /\ readReq' = NoRead
    /\ UNCHANGED << checkoutVars, availResp, readProp >>

Next ==
    \E a \in Attempts :
        \/ \E r \in Requests : Receive(a, r)
        \/ ConnectOk(a)
        \/ ConnectFail(a)
        \/ ConnectFailAnswered(a)
        \/ LookupOk(a)
        \/ LookupFail(a)
        \/ CheckOk(a)
        \/ CheckFail(a)
        \/ BeginOk(a)
        \/ BeginFail(a)
        \/ InsertOk(a)
        \/ InsertFail(a)
        \/ GatewayOk(a)
        \/ GatewayFail(a)
        \/ GatewayHang(a)
        \/ CommitOk(a)
        \/ CommitFail(a)
        \/ CommitFailApplied(a)
        \/ Rollback(a)
        \/ RollbackFail(a)

Spec == Init /\ [][Next]_vars

\* The read handlers alone, against every table of the rows above.
ReadInit ==
    /\ committed \in SUBSET ReadRows
    /\ nextId = Cardinality(ReadRows) + 1
    /\ pc = [a \in Attempts |-> "idle"]
    /\ req = [a \in Attempts |-> NoReq]
    /\ prop = [a \in Attempts |-> NoProp]
    /\ conn = [a \in Attempts |-> "none"]
    /\ txOpen = [a \in Attempts |-> FALSE]
    /\ txRows = [a \in Attempts |-> {}]
    /\ resId = [a \in Attempts |-> 0]
    /\ amount = [a \in Attempts |-> 0]
    /\ resp = [a \in Attempts |-> 0]
    /\ gw = [a \in Attempts |-> "none"]
    /\ gwCalls = [a \in Attempts |-> 0]
    /\ gwReq = [a \in Attempts |-> NoCall]
    /\ respBody = [a \in Attempts |-> NoBody]
    /\ releases = [a \in Attempts |-> 0]
    /\ sessions = {}
    /\ busyAtStart = [a \in Attempts |-> {}]
    /\ txAtConnect = [a \in Attempts |-> NoTx]
    /\ availResp = NoResp
    /\ quoteResp = NoResp
    /\ readPc = "idle"
    /\ readReq = NoRead
    /\ readProp = NoProp

ReadSteps ==
    \/ AvailabilityLookupOk
    \/ AvailabilityLookupFail
    \/ AvailabilityQueryOk
    \/ AvailabilityQueryFail
    \/ QuoteLookupOk
    \/ QuoteLookupFail

ReadNext ==
    \/ \E q \in AvailQueries : AvailabilityStart(q)
    \/ \E b \in QuoteBodies : QuoteStart(b)
    \/ ReadSteps

ReadSpec == ReadInit /\ [][ReadNext]_vars

\* The checkout attempts together with one request to a read handler, sent
\* at any moment of the run: an availability query for the whole span of the
\* model's dates, or a quote for it, for a property that exists.
SpanQueries ==
    { q \in AvailQueries :
        /\ AvailabilityEarly(q) = 0
        /\ q.from \in Dates /\ q.to \in Dates
        /\ \A d \in Dates : DateLE(q.from, d) /\ DateLE(d, q.to) }

SpanBodies ==
    { b \in QuoteBodies :
        /\ b.property_id = 1
        /\ b.checkin \in Dates /\ b.checkout \in Dates
        /\ \A d \in Dates : DateLE(b.checkin, d) /\ DateLE(d, b.checkout) }

FullNext ==
    \/ Next
    \/ \E q \in SpanQueries : AvailabilityStart(q)
    \/ \E b \in SpanBodies : QuoteStart(b)
    \/ ReadSteps

FullSpec == Init /\ [][FullNext]_vars

\* Every step that stays enabled is eventually taken: the event loop runs
\* every continuation whose await has settled, and the database and the
\* gateway settle every call but a hung one.
FairSpec == Spec /\ WF_vars(Next)

(***************************************************************************)
(* Properties.                                                             *)
(***************************************************************************)
InitialRows == { r \in committed : r.id < FirstId }

Valid(a) == pc[a] # "idle" /\ CheckoutInvalid(req[a]) = 0

Resolved(a) == getProperty(req[a].property_id, req[a].property_slug)

RowOf(a) == { r \in committed : r.id = resId[a] }

\* C1: no two committed reservations of one property, both pending or paid,
\* have overlapping ranges [checkin, checkout).
C1_NoDoubleBooking ==
    \A r1, r2 \in committed :
        ( /\ r1.id # r2.id
          /\ r1.property_id = r2.property_id
          /\ r1.status \in {"pending", "paid"}
          /\ r2.status \in {"pending", "paid"} )
        => ~RangesOverlap(r1.checkin, r1.checkout, r2.checkin, r2.checkout)

\* C2: when all the attempts of a run are valid requests for mutually
\* overlapping ranges of one property that was free of them at the start, and
\* neither the database nor the gateway failed any of them, exactly one is
\* answered 201 and all the others 409.
C2_ExactlyOneWinner ==
    ( /\ \A a \in Attempts : pc[a] = "done" /\ Valid(a) /\ resp[a] \in {201, 409}
      /\ \A a \in Attempts : prop[a] # NoProp /\ prop[a] = prop[1]
      /\ \A a, b \in Attempts :
            RangesOverlap(req[a].checkin, req[a].checkout,
                          req[b].checkin, req[b].checkout)
      /\ \A a \in Attempts :
            Blocking(InitialRows, prop[a].id, req[a].checkin, req[a].checkout) = {} )
    => /\ Cardinality({ a \in Attempts : resp[a] = 201 }) = 1
       /\ Cardinality({ a \in Attempts : resp[a] = 409 }) = NAttempts - 1

\* C3: an attempt whose gateway call failed and that has answered, answered
\* 500, holds no open transaction, and the row it inserted is in no
\* availability result: the availability of its property and range is what
\* it was when it arrived, plus what other attempts committed meanwhile.
C3_GatewayFailureRollsBack ==
    \A a \in Attempts :
        (gw[a] = "fail" /\ resp[a] # 0) =>
            /\ resp[a] = 500
            /\ ~txOpen[a] /\ txRows[a] = {}
            /\ RowOf(a) = {}
            /\ \A f, t \in Dates :
                  \A r \in Blocking(committed, prop[a].id, f, t) : r.id # resId[a]
            /\ \A r \in Blocking(committed, prop[a].id, req[a].checkin,
                                  req[a].checkout) :
                  \/ r \in busyAtStart[a]
                  \/ \E b \in Attempts \ {a} : resp[b] = 201 /\ r.id = resId[b]

\* C4: a step of an attempt that does not answer 201 leaves the committed
\* table as it is, and the row of an attempt answered 400, 404, 409 or 500
\* is not in the table.
C4_FailedAttemptLeavesTable ==
    [][ \A a \in Attempts :
          /\ (pc'[a] # pc[a] /\ resp'[a] # 201) => committed' = committed
          /\ resp'[a] \in {400, 404, 409, 500} =>
                \A r \in committed' : r.id # resId'[a] ]_vars

\* C5: an attempt that arrives when a committed pending or paid reservation
\* of its property overlaps its range inserts nothing and begins no
\* transaction (its client holds at most the transaction and the rows it
\* carried when the pool handed it out), never calls the gateway and is
\* never answered 201 or 404; it is answered 409 unless its body is invalid
\* (400) or a query of it is rejected (500).
C5_SequentialConflict ==
    \A a \in Attempts :
        busyAtStart[a] # {} =>
            /\ resId[a] = 0
            /\ txRows[a] \subseteq txAtConnect[a].rows
            /\ txOpen[a] => txAtConnect[a].open
            /\ gwCalls[a] = 0 /\ gw[a] = "none"
            /\ pc[a] \in {"connect", "lookup", "check", "catch", "done", "dead"}
            /\ resp[a] \in {0, 400, 409, 500}
            /\ resp[a] = 400 => CheckoutInvalid(req[a]) = 400
            /\ (pc[a] = "done" /\ Valid(a) /\ resp[a] # 500) => resp[a] = 409

\* The blocking reservation was committed by an earlier attempt of the run.
C5_Witness ==
    \E a \in Attempts :
        /\ resp[a] = 409
        /\ \E r \in busyAtStart[a] : r.id >= FirstId

\* C6: an attempt is answered 409 only when a pending or paid reservation
\* of its property overlaps its range, committed or held by the transaction
\* its client carried when the pool handed it out; a valid attempt whose
\* range overlaps neither such a row of the initial table nor the range of
\* another request for its property, and that no failure hit, is answered 201.
C6_NonOverlappingBothSucceed ==
    \A a \in Attempts :
        /\ resp[a] = 409 =>
              Blocking(committed \cup txAtConnect[a].rows, prop[a].id,
                       req[a].checkin, req[a].checkout) # {}
        /\ ( /\ pc[a] = "done" /\ Valid(a) /\ prop[a] # NoProp /\ resp[a] # 500
             /\ Blocking(InitialRows, prop[a].id, req[a].checkin, req[a].checkout) = {}
             /\ \A b \in Attempts \ {a} :
                   \/ pc[b] = "idle"
                   \/ Resolved(b).id # prop[a].id
                   \/ ~RangesOverlap(req[a].checkin, req[a].checkout,
                                     req[b].checkin, req[b].checkout) )
           => resp[a] = 201

\* Two back-to-back stays of one property, both booked.
C6_Witness ==
    \E a, b \in Attempts :
        /\ a # b /\ resp[a] = 201 /\ resp[b] = 201
        /\ prop[a] = prop[b]
        /\ req[a].checkout = req[b].checkin
        /\ RowOf(a) # {} /\ RowOf(b) # {}

\* C7: a request whose checkout is not after its checkin uses no database
\* connection, never reaches the property lookup, the conflict query, BEGIN
\* or the insert, and is answered 400.
C7_InvalidRangeTouchesNoDatabase ==
    \A a \in Attempts :
        ( /\ pc[a] # "idle"
          /\ TimeLE(toDate(req[a].checkout), toDate(req[a].checkin)) )
        => /\ conn[a] = "none"
           /\ pc[a] \in {"connect", "done"}
           /\ pc[a] = "done" => resp[a] = 400

\* C8: an attempt whose gateway call does not return eventually answers and
\* closes its transaction.
C8_GatewayTimeoutHandled ==
    \A a \in Attempts : (gw[a] = "hung") ~> (resp[a] # 0 /\ ~txOpen[a])

\* The number of calendar days from date a to a later date b, counted one
\* day at a time.
IsLeap(y) == (y % 4 = 0 /\ y % 100 # 0) \/ y % 400 = 0

DaysInMonth(y, m) ==
    IF m = 2 THEN (IF IsLeap(y) THEN 29 ELSE 28)
    ELSE IF m \in {4, 6, 9, 11} THEN 30 ELSE 31

NextDay(d) ==
    IF d[3] < DaysInMonth(d[1], d[2]) THEN <<d[1], d[2], d[3] + 1>>
    ELSE IF d[2] < 12 THEN <<d[1], d[2] + 1, 1>>
    ELSE <<d[1] + 1, 1, 1>>

RECURSIVE CalendarDays(_, _)
CalendarDays(a, b) == IF a = b THEN 0 ELSE 1 + CalendarDays(NextDay(a), b)

\* C9: the amount of a checkout attempt, the unit_amount of its gateway
\* session and the total of the quote for the same body all equal the number
\* of calendar days from checkin to checkout times the nightly price.
C9_PriceIsNightsTimesRate ==
    \A a \in Attempts :
        (pc[a] \in {"begin", "insert", "stripe", "hung", "commit"} \/ resp[a] = 201) =>
            LET total == CalendarDays(req[a].checkin, req[a].checkout)
                            * prop[a].price_per_night_cents
            IN  /\ amount[a] = total
                /\ QuoteResponse(req[a]).status = 200
                /\ QuoteResponse(req[a]).nights
                      = CalendarDays(req[a].checkin, req[a].checkout)
                /\ QuoteResponse(req[a]).total_cents = total
                /\ \A s \in sessions :
                      s.reservation_id = resId[a] => s.unit_amount = total

\* The specification's example: 10000 a night, 2024-06-01 to 2024-06-04.
C9_Witness ==
    \E a \in Attempts :
        /\ resp[a] = 201
        /\ prop[a].price_per_night_cents = 10000
        /\ req[a].checkin = <<2024, 6, 1>> /\ req[a].checkout = <<2024, 6, 4>>
        /\ amount[a] = 30000
        /\ \E s \in sessions : s.reservation_id = resId[a] /\ s.unit_amount = 30000

C11_BadDatesRejected ==
    quoteResp.status \notin {0, 500} =>
        LET b == quoteResp.body
        IN  /\ ( \/ b.checkin = NoDate \/ b.checkout = NoDate
                 \/ ~IsDate(b.checkin) \/ ~IsDate(b.checkout)
                 \/ ~DateLess(b.checkin, b.checkout) )
               => quoteResp.status = 400
            /\ quoteResp.status = 200 => quoteResp.response.nights >= 1

(***************************************************************************)
(* C12.  Property lookup.  The step of a checkout attempt that completes    *)
(* the lookup resolves the property by identifier alone when an identifier  *)
(* is given (the slug is ignored even if the identifier matches nothing),   *)
(* by slug when only a slug is given, and finds nothing when neither is     *)
(* given; the attempt answers 404 exactly when nothing is found; and the    *)
(* step changes no stored state (table, id sequence, open transactions,     *)
(* payment sessions).                                                       *)
(***************************************************************************)
ExpectedProperty(r) ==
    IF r.property_id # 0
       THEN IF \E p \in Properties : p.id = r.property_id
               THEN CHOOSE p \in Properties : p.id = r.property_id
               ELSE NoProp
    ELSE IF r.property_slug # ""
       THEN IF \E p \in Properties : p.slug = r.property_slug
               THEN CHOOSE p \in Properties : p.slug = r.property_slug
               ELSE NoProp
    ELSE NoProp

C12_PropertyLookup ==
    [][ \A a \in Attempts :
          (pc[a] = "lookup" /\ pc'[a] \in {"check", "done"}) =>
              /\ prop'[a] = ExpectedProperty(req[a])
              /\ (pc'[a] = "done") = (ExpectedProperty(req[a]) = NoProp)
              /\ pc'[a] = "done" => resp'[a] = 404
              /\ committed' = committed
              /\ nextId' = nextId
              /\ txRows' = txRows
              /\ txOpen' = txOpen
              /\ sessions' = sessions ]_vars

\* An attempt naming an unknown identifier together with a known slug was
\* answered 404, and one naming only a slug resolved it.
C12_Witness ==
    /\ \E a \in Attempts :
          /\ req[a].property_id = 9 /\ req[a].property_slug = "villa-x"
          /\ resp[a] = 404
    /\ \E a \in Attempts :
          /\ req[a].property_id = 0 /\ req[a].property_slug = "casa-y"
          /\ prop[a].id = 2

(***************************************************************************)
(* C13.  Protocol order of one checkout attempt: BEGIN first, the conflict  *)
(* query inside the transaction, then the insert, then the payment-session  *)
(* call, then COMMIT.  As steps: the conflict query of an attempt is        *)
(* answered only while the attempt's transaction is open; so is the insert; *)
(* the gateway is called only with the row inserted; and the table changes  *)
(* only for an attempt whose gateway call succeeded.                        *)
(***************************************************************************)
C13_ProtocolOrder ==
    [][ \A a \in Attempts :
          /\ (pc[a] = "check" /\ pc'[a] # "check") => txOpen[a]
          /\ (pc[a] = "insert" /\ pc'[a] # "insert") => txOpen[a]
          /\ gwCalls'[a] # gwCalls[a] => txOpen'[a] /\ txRows'[a] # {}
          /\ (pc[a] = "commit" /\ pc'[a] = "done" /\ resp'[a] = 201) =>
                 gw[a] = "ok" /\ txOpen[a] ]_vars

(***************************************************************************)
(* C14.  An attempt is answered 201 exactly when its transaction            *)
(* committed: the table holds a row inserted by the attempt if and only if  *)
(* the attempt was answered 201; the reservation_id of the 201 body is the  *)
(* id of that row, which is pending and carries the requested property,     *)
(* checkin and checkout; an attempt answered otherwise has no row and no   *)
(* 201 body.                                                                *)
(***************************************************************************)
C14_Created201IffCommitted ==
    \A a \in Attempts :
        /\ (resp[a] = 201) = (RowOf(a) # {})
        /\ resp[a] = 201 =>
              /\ respBody[a] # NoBody
              /\ resId[a] >= FirstId
              /\ \A b \in Attempts : b # a => resId[b] # resId[a]
              /\ { r \in committed : r.id = respBody[a].reservation_id } =
                    { Row(resId[a], ExpectedProperty(req[a]).id, req[a].checkin,
                          req[a].checkout, "pending") }
        /\ resp[a] # 201 => respBody[a] = NoBody

(***************************************************************************)
(* C17.  The gateway is invoked at most once per attempt, and only by an    *)
(* attempt that passed validation, found its property, passed the conflict  *)
(* check and inserted its row; the metadata reservation_id it is given is   *)
(* the id of the inserted row and the reservation_id of the 201 body; an    *)
(* attempt answered 400, 404 or 409 has not invoked it.  The inserted row   *)
(* is the one row the attempt added to what its client's transaction held   *)
(* when the pool handed the client out.                                     *)
(***************************************************************************)
C17_GatewayCall ==
    /\ [](\A a \in Attempts :
            /\ gwCalls[a] <= 1
            /\ gwCalls[a] = 1 =>
                  /\ CheckoutInvalid(req[a]) = 0
                  /\ ExpectedProperty(req[a]) # NoProp
                  /\ resId[a] >= FirstId
                  /\ gwReq[a].reservation_id = resId[a]
                  /\ gwReq[a].property_id = ExpectedProperty(req[a]).id
                  /\ gwReq[a].checkin = req[a].checkin
                  /\ gwReq[a].checkout = req[a].checkout
                  /\ txOpen[a] => txRows[a] = txAtConnect[a].rows \cup
                        { Row(gwReq[a].reservation_id, gwReq[a].property_id,
                              req[a].checkin, req[a].checkout, "pending") }
                  /\ \A r \in txAtConnect[a].rows : r.id # gwReq[a].reservation_id
            /\ gwCalls[a] = 0 => gwReq[a] = NoCall /\ gw[a] = "none"
            /\ resp[a] = 201 =>
                  gwCalls[a] = 1 /\ respBody[a].reservation_id = gwReq[a].reservation_id
            /\ resp[a] \in {400, 404, 409} => gwCalls[a] = 0)
    /\ [][ \A a \in Attempts :
            gwCalls'[a] # gwCalls[a] =>
                /\ pc[a] = "insert" /\ txOpen[a] /\ prop[a] # NoProp
                /\ txRows[a] = txAtConnect[a].rows
                /\ txRows'[a] # txRows[a] ]_vars

\* One attempt was answered 201 after its gateway call and another was
\* answered 409 without one.
C17_Witness ==
    \E a, b \in Attempts :
        /\ resp[a] = 201 /\ gwCalls[a] = 1
        /\ respBody[a].reservation_id = gwReq[a].reservation_id
        /\ resp[b] = 409 /\ gwCalls[b] = 0

(***************************************************************************)
(* C18.  Whenever the gateway has created a payment session for             *)
(* reservation r, reservation r ends up committed with status pending:      *)
(* once the attempt that asked for the session has finished, the table      *)
(* holds a pending row with that id.                                        *)
(***************************************************************************)
C18_SessionImpliesCommitted ==
    \A s \in sessions : \A a \in Attempts :
        (resId[a] = s.reservation_id /\ pc[a] = "done") =>
            \E r \in committed : r.id = s.reservation_id /\ r.status = "pending"

(***************************************************************************)
(* C19.  Every checkout request receives one response, with status 201,    *)
(* 400, 404, 409 or 500, on every path: an attempt of which no further      *)
(* step can run has been answered with one of these.                        *)
(***************************************************************************)
C19_EveryRequestAnswered ==
    \A a \in Attempts :
        pc[a] \in {"done", "dead", "hung"} => resp[a] \in {201, 400, 404, 409, 500}

(***************************************************************************)
(* C20.  A connection acquired by a checkout request is released exactly    *)
(* once on every exit path: an attempt answered 201, 400, 404 or 409, or    *)
(* answered 500 by the handler, has released its client, once; the step     *)
(* that releases it is the step that answers, and it leaves no transaction  *)
(* open and no uncommitted insert on the connection; a client is held only  *)
(* by an attempt that is still running, and a transaction is open only on   *)
(* a held client.                                                           *)
(***************************************************************************)
C20_ConnectionReleasedOnce ==
    /\ [](\A a \in Attempts :
            /\ releases[a] <= 1
            /\ (conn[a] = "released") = (releases[a] = 1)
            /\ resp[a] \in {201, 400, 404, 409} => conn[a] = "released"
            /\ pc[a] = "done" => conn[a] # "held"
            /\ conn[a] = "released" =>
                  ~txOpen[a] /\ txRows[a] = {} /\ pc[a] = "done" /\ resp[a] # 0
            /\ (txOpen[a] \/ txRows[a] # {}) => conn[a] = "held")
    /\ [][ \A a \in Attempts :
            conn'[a] # conn[a] =>
                \/ conn[a] = "none" /\ conn'[a] = "held" /\ releases'[a] = 0
                \/ /\ conn[a] # "released" /\ conn'[a] = "released"
                   /\ releases'[a] = releases[a] + 1
                   /\ resp[a] = 0 /\ resp'[a] # 0 ]_vars

(***************************************************************************)
(* C15.  A reservation inserted by a checkout attempt is returned by an     *)
(* availability query, issued at any moment, only if the attempt's payment  *)
(* session was created and its transaction committed: every row of a 200    *)
(* response that was not in the table at the start is the row of an         *)
(* attempt whose gateway call succeeded and whose row is committed.         *)
(***************************************************************************)
C15_UncommittedNeverObservable ==
    availResp.status = 200 =>
        \A i \in DOMAIN availResp.occupied :
            availResp.occupied[i].id >= FirstId =>
                \E a \in Attempts :
                    /\ resId[a] = availResp.occupied[i].id
                    /\ gw[a] = "ok"
                    /\ RowOf(a) # {}
                    /\ \E s \in sessions : s.reservation_id = resId[a]

====
